---- MODULE Spec2Model ----
(***************************************************************************)
(* A model of xpath.py: the Expression tree built by the DSL combinators   *)
(* (xpath/dsl.py, xpath/html.py) and the Renderer that turns a tree into   *)
(* an XPath query string (xpath/renderer.py).                              *)
(*                                                                         *)
(* Python values are tagged records; Python strings are TLA+ strings.      *)
(* The inputs contain no backslash and no non-printable character.        *)
(***************************************************************************)
EXTENDS Integers, Sequences, FiniteSets, TLC

VARIABLES
    tree,       \* the Expression a client has built so far
    depth,      \* how many combinators were applied to build tree
    tree_exact,      \* the tree_exact argument of the to_xpath call on tree
    out,        \* what that call returned or raised; NotRendered before it
    pc,         \* per concurrent to_xpath call: idle, running, returned
    call_node,       \* per call: the call_node argument
    call_exact,  \* per call: the tree_exact argument
    self_exact, \* per call: the tree_exact attribute of its Renderer instance
    stack,      \* per call: the frames of render / _convert_argument
    result      \* per call: the value returned or the exception raised

build_vars == <<tree, depth, tree_exact, out>>

call_vars == <<pc, call_node, call_exact, self_exact, stack, result>>

vars == <<tree, depth, tree_exact, out, pc, call_node, call_exact, self_exact, stack, result>>

\* combinator applications on top of a root
MaxDepth == 2

\* element names given to one descendant() call
MaxNames == 2

\* values given to one one_of() call
MaxValues == 2

-----------------------------------------------------------------------------
(* Python values                                                           *)

Str(s) == [t |-> "str", s |-> s]

List(items) == [t |-> "list", items |-> items]

PyInt(n) == [t |-> "int", n |-> n]

None == [t |-> "None"]

\* an exception propagating out of a call
Raise(exc) == [t |-> "raise", exc |-> exc]

IsRaise(v) == v.t = "raise"

IsStr(v) == v.t = "str"

\* xpath.literal.Literal: a wrapper exposing only its raw value
Literal(value) == [t |-> "Literal", value |-> value]

\* xpath.expression.Expression: (kind, ordered argument tuple)
Expression(kind, arguments) ==
    [t |-> "Expression", kind |-> kind, arguments |-> arguments]

\* the first exception among the values of a sequence, in evaluation order
FirstRaise(vals) ==
    vals[CHOOSE i \in DOMAIN vals :
            IsRaise(vals[i]) /\ \A j \in 1..(i - 1) : ~IsRaise(vals[j])]

AnyRaise(vals) == \E i \in DOMAIN vals : IsRaise(vals[i])

-----------------------------------------------------------------------------
(* str.format, repr and str.join, as the renderer's templates use them     *)

HasChar(s, c) == \E i \in 1..Len(s) : SubSeq(s, i, i) = c

RECURSIVE EscapeQuote(_)
EscapeQuote(s) ==
    IF Len(s) = 0 THEN ""
    ELSE (IF SubSeq(s, 1, 1) = "'" THEN "\\'" ELSE SubSeq(s, 1, 1))
         \o EscapeQuote(SubSeq(s, 2, Len(s)))

\* repr() of a str: double quotes when it holds ' and no ", else single quotes
ReprStr(s) ==
    IF HasChar(s, "'") /\ ~HasChar(s, "\"") THEN "\"" \o s \o "\""
    ELSE "'" \o EscapeQuote(s) \o "'"

\* the default object.__repr__ (the address is left out)
ObjectRepr(v) ==
    IF v.t = "Expression" THEN "<xpath.expression.Expression object>"
    ELSE "<xpath.literal.Literal object>"

RECURSIVE Repr(_)
RECURSIVE ReprItems(_)
ReprItems(items) ==
    IF Len(items) = 0 THEN ""
    ELSE IF Len(items) = 1 THEN Repr(items[1])
    ELSE Repr(items[1]) \o ", " \o ReprItems(Tail(items))

Repr(v) ==
    CASE v.t = "str" -> ReprStr(v.s)
      [] v.t = "None" -> "None"
      [] v.t = "int" -> ToString(v.n)
      [] v.t = "list" -> "[" \o ReprItems(v.items) \o "]"
      [] OTHER -> ObjectRepr(v)

\* "{0}".format(v): the text a template substitutes for v
Format(v) == IF v.t = "str" THEN v.s ELSE Repr(v)

RECURSIVE JoinStrings(_, _)
JoinStrings(sep, strs) ==
    IF Len(strs) = 0 THEN ""
    ELSE IF Len(strs) = 1 THEN strs[1]
    ELSE strs[1] \o sep \o JoinStrings(sep, Tail(strs))

\* sep.join(vals): TypeError unless every item is a str
Join(sep, vals) ==
    IF \E i \in DOMAIN vals : ~IsStr(vals[i]) THEN Raise("TypeError")
    ELSE Str(JoinStrings(sep, [i \in DOMAIN vals |-> vals[i].s]))

\* iterating / len() / [0] of a value: a list gives its items, a str its
\* characters; anything else has no len()
Elements(v) ==
    CASE v.t = "list" -> v.items
      [] v.t = "str" -> [i \in 1..Len(v.s) |-> Str(SubSeq(v.s, i, i))]
      [] OTHER -> <<>>

HasLen(v) == v.t \in {"list", "str"}

-----------------------------------------------------------------------------
(* xpath/renderer.py: class Renderer                                       *)

\* a variant of the table below that sends EQUALITY to the method of IS
_RENDER_METHOD_NAMES_equality_as_is ==
    ("ANYWHERE" :> "_anywhere")
    @@ ("ATTR" :> "_attribute")
    @@ ("CHILD" :> "_child")
    @@ ("CONTAINS" :> "_contains")
    @@ ("DESCENDANT" :> "_descendant")
    @@ ("EQUALITY" :> "_is")
    @@ ("INVERSE" :> "_inverse")
    @@ ("IS" :> "_is")
    @@ ("NORMALIZED_SPACE" :> "_normalized_space")
    @@ ("ONE_OF" :> "_one_of")
    @@ ("OR" :> "_or")
    @@ ("PREVIOUS_SIBLING" :> "_previous_sibling")
    @@ ("STRING" :> "_string_function")
    @@ ("THIS_NODE" :> "_this_node")
    @@ ("UNION" :> "_union")
    @@ ("WHERE" :> "_where")

\* ExpressionKind members the renderer has a method for
_RENDER_METHOD_NAMES ==
    ("ANYWHERE" :> "_anywhere")
    @@ ("ATTR" :> "_attribute")
    @@ ("CHILD" :> "_child")
    @@ ("CONTAINS" :> "_contains")
    @@ ("DESCENDANT" :> "_descendant")
    @@ ("EQUALITY" :> "_equality")
    @@ ("INVERSE" :> "_inverse")
    @@ ("IS" :> "_is")
    @@ ("NORMALIZED_SPACE" :> "_normalized_space")
    @@ ("ONE_OF" :> "_one_of")
    @@ ("OR" :> "_or")
    @@ ("PREVIOUS_SIBLING" :> "_previous_sibling")
    @@ ("STRING" :> "_string_function")
    @@ ("THIS_NODE" :> "_this_node")
    @@ ("UNION" :> "_union")
    @@ ("WHERE" :> "_where")

_anywhere(node) == Str("//" \o Format(node))

_attribute(node, attribute_name) ==
    Str(Format(node) \o "/@" \o Format(attribute_name))

_child(parent, element_name) ==
    Str(Format(parent) \o "/" \o Format(element_name))

_contains(expr, value) ==
    Str("contains(" \o Format(expr) \o ", " \o Format(value) \o ")")

\* a variant that takes the any-of form for a single name too
_descendant_any_of(parent, element_names) ==
    IF ~HasLen(element_names) THEN Raise("TypeError")
    ELSE LET names == Elements(element_names)
         IN IF Len(names) >= 1
            THEN Str(Format(parent) \o "//*["
                     \o JoinStrings(" | ",
                            [i \in DOMAIN names |-> "self::" \o Format(names[i])])
                     \o "]")
            ELSE Str(Format(parent) \o "//*")

_descendant(parent, element_names) ==
    IF ~HasLen(element_names) THEN Raise("TypeError")
    ELSE LET names == Elements(element_names)
         IN IF Len(names) = 1
            THEN Str(Format(parent) \o "//" \o Format(names[1]))
            ELSE IF Len(names) > 1
            THEN LET element_names_xpath ==
                         JoinStrings(" | ",
                             [i \in DOMAIN names |-> "self::" \o Format(names[i])])
                 IN Str(Format(parent) \o "//*[" \o element_names_xpath \o "]")
            ELSE Str(Format(parent) \o "//*")

_equality(expr1, expr2) == Str(Format(expr1) \o " = " \o Format(expr2))

_inverse(expr) == Str("not(" \o Format(expr) \o ")")

\* a variant with the two modes exchanged
_is_swapped(exact, expr1, expr2) ==
    IF exact THEN _contains(expr1, expr2) ELSE _equality(expr1, expr2)

_is(exact, expr1, expr2) ==
    IF exact THEN _equality(expr1, expr2) ELSE _contains(expr1, expr2)

_normalized_space(expr) == Str("normalize-space(" \o Format(expr) \o ")")

_one_of(expr, values) ==
    Str(JoinStrings(" or ",
            [i \in DOMAIN values |-> Format(expr) \o " = " \o Format(values[i])]))

_or(exprs) ==
    LET joined == Join(" or ", exprs)
    IN IF IsRaise(joined) THEN joined ELSE Str("(" \o joined.s \o ")")

_previous_sibling(node, element_name) ==
    Str(Format(node) \o "/preceding-sibling::*[1]/self::" \o Format(element_name))

_string_function(expr) == Str("string(" \o Format(expr) \o ")")

\* a variant that quotes with double quotes
_string_literal_double(text) == Str("\"" \o text \o "\"")

_string_literal(text) == Str("'" \o text \o "'")

_this_node == Str(".")

\* a variant that joins the operands as _or does
_union_as_or(exprs) == Join(" or ", exprs)

_union(exprs) == Join(" | ", exprs)

\* a variant that keeps only the last predicate
_where_last_only(expr, predicate_exprs) ==
    IF Len(predicate_exprs) = 0 THEN Str(Format(expr))
    ELSE Str(Format(expr) \o "["
             \o Format(predicate_exprs[Len(predicate_exprs)]) \o "]")

_where(expr, predicate_exprs) ==
    LET predicates ==
            [i \in DOMAIN predicate_exprs |-> "[" \o Format(predicate_exprs[i]) \o "]"]
    IN Str(Format(expr) \o JoinStrings("", predicates))

\* render_method(*args): binding the resolved arguments to the method's
\* parameters raises TypeError when their number does not fit its signature
render_method(name, exact, args) ==
    LET n == Len(args)
        fixed(k, v) == IF n = k THEN v ELSE Raise("TypeError")
    IN CASE name = "_anywhere" -> fixed(1, _anywhere(args[1]))
         [] name = "_attribute" -> fixed(2, _attribute(args[1], args[2]))
         [] name = "_child" -> fixed(2, _child(args[1], args[2]))
         [] name = "_contains" -> fixed(2, _contains(args[1], args[2]))
         [] name = "_descendant" -> fixed(2, _descendant(args[1], args[2]))
         [] name = "_equality" -> fixed(2, _equality(args[1], args[2]))
         [] name = "_inverse" -> fixed(1, _inverse(args[1]))
         [] name = "_is" -> fixed(2, _is(exact, args[1], args[2]))
         [] name = "_normalized_space" -> fixed(1, _normalized_space(args[1]))
         [] name = "_one_of" ->
                IF n >= 1 THEN _one_of(args[1], Tail(args)) ELSE Raise("TypeError")
         [] name = "_or" -> _or(args)
         [] name = "_previous_sibling" ->
                fixed(2, _previous_sibling(args[1], args[2]))
         [] name = "_string_function" -> fixed(1, _string_function(args[1]))
         [] name = "_this_node" -> fixed(0, _this_node)
         [] name = "_union" -> _union(args)
         [] name = "_where" ->
                IF n >= 1 THEN _where(args[1], Tail(args)) ELSE Raise("TypeError")

\* a variant with a default case: an empty text for a kind without a method
dispatch_default(exact, kind, args) ==
    IF AnyRaise(args) THEN FirstRaise(args)
    ELSE IF kind \notin DOMAIN _RENDER_METHOD_NAMES THEN Str("")
    ELSE render_method(_RENDER_METHOD_NAMES[kind], exact, args)

\* the part of Renderer.render after the arguments are resolved
dispatch(exact, kind, args) ==
    IF AnyRaise(args) THEN FirstRaise(args)
    ELSE IF kind \notin DOMAIN _RENDER_METHOD_NAMES THEN Raise("KeyError")
    ELSE render_method(_RENDER_METHOD_NAMES[kind], exact, args)

\* the branches of _convert_argument that do not recurse
convert_leaf(argument) ==
    CASE argument.t = "str" -> _string_literal(argument.s)
      [] argument.t = "Literal" -> argument.value
      [] OTHER -> None

RECURSIVE render(_, _)
RECURSIVE _convert_argument(_, _)
render(exact, node) ==
    LET args == [i \in DOMAIN node.arguments |->
                    _convert_argument(exact, node.arguments[i])]
    IN dispatch(exact, node.kind, args)

_convert_argument(exact, argument) ==
    CASE argument.t = "Expression" -> render(exact, argument)
      [] argument.t = "list" ->
            LET elements == [i \in DOMAIN argument.items |->
                                _convert_argument(exact, argument.items[i])]
            IN IF AnyRaise(elements) THEN FirstRaise(elements) ELSE List(elements)
      [] OTHER -> convert_leaf(argument)

\* to_xpath(node, exact): a fresh Renderer(exact=exact) renders node
to_xpath(node, exact) == render(exact, node)

-----------------------------------------------------------------------------
(* xpath/expression.py: the combinators of Expression.  Every one returns  *)
(* a new Expression that refers to its receiver; none changes a node.      *)

Expression_attr(self, attribute_name) ==
    Expression("ATTR", <<self, Literal(attribute_name)>>)

Expression_child(self, element_name) ==
    Expression("CHILD", <<self, Literal(element_name)>>)

\* descendant(*element_names): one Literal per name, whatever the name is
Expression_descendant(self, element_names) ==
    Expression("DESCENDANT",
        <<self, List([i \in DOMAIN element_names |-> Literal(element_names[i])])>>)

Expression_previous_sibling(self, element_name) ==
    Expression("PREVIOUS_SIBLING", <<self, Literal(element_name)>>)

Expression_contains(self, other) == Expression("CONTAINS", <<self, other>>)

Expression_equals(self, other) == Expression("EQUALITY", <<self, other>>)

Expression_is_(self, other) == Expression("IS", <<self, other>>)

\* one_of(*values)
Expression_one_of(self, values) == Expression("ONE_OF", <<self>> \o values)

\* self | other: a binary OR node; chained uses nest to the left
Expression_or(self, other) == Expression("OR", <<self, other>>)

\* ~self
Expression_invert(self) == Expression("INVERSE", <<self>>)

\* the operands an expression brings into a union
UnionOperands(e) == IF e.kind = "UNION" THEN e.arguments ELSE <<e>>

\* self + other: an operand that is a UNION already is flattened, not nested
Expression_add(self, other) ==
    Expression("UNION", UnionOperands(self) \o UnionOperands(other))

\* self[predicate]: a WHERE receiver is extended, any other is wrapped
Expression_getitem(self, predicate) ==
    IF self.kind = "WHERE" THEN Expression("WHERE", Append(self.arguments, predicate))
    ELSE Expression("WHERE", <<self, predicate>>)

Expression_string(self) == Expression("STRING", <<self>>)

Expression_n(self) == Expression("NORMALIZED_SPACE", <<self>>)

Expression_text(self) == Expression_n(Expression_string(self))

\* the string-oriented combinators: kinds the renderer has no method for
Expression_name(self) == Expression("NAME", <<self>>)

Expression_starts_with(self, other) == Expression("STARTS_WITH", <<self, other>>)

Expression_string_length(self) == Expression("STRING_LENGTH", <<self>>)

Expression_substring(self, start, length) ==
    Expression("SUBSTRING", <<self, start, length>>)

-----------------------------------------------------------------------------
(* xpath/dsl.py: the combinators bound to the current context node         *)

current == Expression("THIS_NODE", <<>>)

attr(attribute_name) == Expression_attr(current, attribute_name)

child(element_name) == Expression_child(current, element_name)

descendant(element_names) == Expression_descendant(current, element_names)

string == Expression_string(current)

anywhere(element_name) == Expression("ANYWHERE", <<Literal(element_name)>>)

-----------------------------------------------------------------------------
(* xpath/html.py: the locators of semantic HTML elements                   *)

\* a | b | c | d, left to right
Or3(a, b, c) == Expression_or(Expression_or(a, b), c)

Or4(a, b, c, d) == Expression_or(Or3(a, b, c), d)

button(locator) ==
    LET matches == Or4(Expression_equals(attr(Str("id")), locator),
                       Expression_is_(attr(Str("value")), locator),
                       Expression_is_(attr(Str("title")), locator),
                       Expression_is_(Expression_n(string), locator))
        expr1 == Expression_getitem(descendant(<<Str("button")>>), matches)
        expr2 == Expression_add(expr1,
                    Expression_getitem(
                        Expression_getitem(descendant(<<Str("input")>>),
                            Expression_one_of(attr(Str("type")),
                                <<Str("submit"), Str("reset"), Str("image"),
                                  Str("button")>>)),
                        matches))
    IN Expression_add(expr2,
            Expression_getitem(
                Expression_getitem(descendant(<<Str("input")>>),
                    Expression_equals(attr(Str("type")), Str("image"))),
                Expression_is_(attr(Str("alt")), locator)))

_locate_field(field_expr, locator) ==
    LET label == Expression_getitem(anywhere(Str("label")),
                    Expression_is_(Expression_n(string), locator))
        expr == Expression_getitem(field_expr,
                    Or4(Expression_equals(attr(Str("id")), locator),
                        Expression_equals(attr(Str("name")), locator),
                        Expression_equals(attr(Str("placeholder")), locator),
                        Expression_equals(attr(Str("id")),
                            Expression_attr(label, Str("for")))))
    IN Expression_add(expr,
            Expression_descendant(
                Expression_getitem(descendant(<<Str("label")>>),
                    Expression_is_(Expression_n(string), locator)),
                <<field_expr>>))

checkbox(locator) ==
    _locate_field(
        Expression_getitem(descendant(<<Str("input")>>),
            Expression_equals(attr(Str("type")), Str("checkbox"))),
        locator)

field(locator) ==
    _locate_field(
        Expression_getitem(
            descendant(<<Str("input"), Str("select"), Str("textarea")>>),
            Expression_invert(
                Expression_one_of(attr(Str("type")),
                    <<Str("hidden"), Str("image"), Str("submit")>>))),
        locator)

fieldset(locator) ==
    Expression_getitem(descendant(<<Str("fieldset")>>),
        Expression_or(Expression_equals(attr(Str("id")), locator),
            Expression_getitem(child(Str("legend")),
                Expression_is_(Expression_n(string), locator))))

file_field(locator) ==
    _locate_field(
        Expression_getitem(descendant(<<Str("input")>>),
            Expression_equals(attr(Str("type")), Str("file"))),
        locator)

link(locator) ==
    Expression_getitem(
        Expression_getitem(descendant(<<Str("a")>>), attr(Str("href"))),
        Or4(Expression_equals(attr(Str("id")), locator),
            Expression_is_(attr(Str("title")), locator),
            Expression_is_(Expression_n(string), locator),
            Expression_getitem(descendant(<<Str("img")>>),
                Expression_is_(attr(Str("alt")), locator))))

link_or_button(locator) == Expression_add(link(locator), button(locator))

radio_button(locator) ==
    _locate_field(
        Expression_getitem(descendant(<<Str("input")>>),
            Expression_equals(attr(Str("type")), Str("radio"))),
        locator)

select(locator) == _locate_field(descendant(<<Str("select")>>), locator)

-----------------------------------------------------------------------------
(* A client building one tree with the combinators and rendering it        *)

Letters == <<"a", "b", "c", "d">>

Words == <<"x", "y", "z", "w">>

NameList(k) == [i \in 1..k |-> Str(Letters[i])]

ValueList(k) == [i \in 1..k |-> Str(Words[i])]

\* locator texts
Locators == {Str("x"), Str("submit")}

\* expressions given as the right operand of a combinator
ExprOperands == {attr(Str("id")), Expression_is_(Expression_n(string), Str("x"))}

\* right operands of contains / equals / is_
Operands == {Str("x")} \cup ExprOperands

\* right operands of +
UnionOperandsPool ==
    ExprOperands \cup {Expression_add(child(Str("a")), child(Str("b")))}

\* argument tuples handed to the Expression constructor directly
ArgShapes(e) ==
    {<<>>, <<e>>, <<e, PyInt(5)>>, <<e, List(<<Str("x"), Literal(Str("a"))>>)>>}

NotRendered == [t |-> "pending"]

Calls == {1, 2}

NoCalls ==
    /\ pc = [k \in Calls |-> "idle"]
    /\ call_node = [k \in Calls |-> current]
    /\ call_exact = [k \in Calls |-> FALSE]
    /\ self_exact = [k \in Calls |-> FALSE]
    /\ stack = [k \in Calls |-> <<>>]
    /\ result = [k \in Calls |-> NotRendered]

Init ==
    /\ tree = current
    /\ depth = 0
    /\ tree_exact = FALSE
    /\ out = NotRendered
    /\ NoCalls

\* a combinator returns a new tree: the client goes on with it
Built(e) ==
    /\ out = NotRendered
    /\ depth < MaxDepth
    /\ tree' = e
    /\ depth' = depth + 1
    /\ UNCHANGED <<tree_exact, out>>
    /\ UNCHANGED call_vars

Attr == Built(Expression_attr(tree, Str("id")))

Child == Built(Expression_child(tree, Str("a")))

Descendant == \E k \in 0..MaxNames : Built(Expression_descendant(tree, NameList(k)))

PreviousSibling == Built(Expression_previous_sibling(tree, Str("a")))

Contains == \E other \in Operands : Built(Expression_contains(tree, other))

Equals == \E other \in Operands : Built(Expression_equals(tree, other))

Is == \E other \in Operands : Built(Expression_is_(tree, other))

OneOf == \E k \in 0..MaxValues : Built(Expression_one_of(tree, ValueList(k)))

Or == \E other \in ExprOperands : Built(Expression_or(tree, other))

Invert == Built(Expression_invert(tree))

Add == \E other \in UnionOperandsPool : Built(Expression_add(tree, other))

GetItem == \E predicate \in ExprOperands : Built(Expression_getitem(tree, predicate))

String == Built(Expression_string(tree))

N == Built(Expression_n(tree))

Name == Built(Expression_name(tree))

StartsWith == Built(Expression_starts_with(tree, Str("x")))

StringLength == Built(Expression_string_length(tree))

Substring == Built(Expression_substring(tree, PyInt(1), PyInt(2)))

\* Expression(kind, *arguments) called directly: nothing validates the shape
Construct ==
    /\ out = NotRendered
    /\ depth = 0
    /\ \E kind \in DOMAIN _RENDER_METHOD_NAMES, arguments \in ArgShapes(tree) :
            tree' = Expression(kind, arguments)
    /\ depth' = MaxDepth
    /\ UNCHANGED <<tree_exact, out>>
    /\ UNCHANGED call_vars

\* anywhere(element_name) starts a tree that is not relative to current
Anywhere ==
    /\ out = NotRendered
    /\ depth = 0
    /\ tree' = anywhere(Str("a"))
    /\ depth' = 1
    /\ UNCHANGED <<tree_exact, out>>
    /\ UNCHANGED call_vars

\* a locator function of xpath.html returns a finished tree
Located(e) ==
    /\ out = NotRendered
    /\ depth = 0
    /\ tree' = e
    /\ depth' = MaxDepth
    /\ UNCHANGED <<tree_exact, out>>
    /\ UNCHANGED call_vars

Button == \E locator \in Locators : Located(button(locator))

Checkbox == \E locator \in Locators : Located(checkbox(locator))

Field == \E locator \in Locators : Located(field(locator))

Fieldset == \E locator \in Locators : Located(fieldset(locator))

FileField == \E locator \in Locators : Located(file_field(locator))

Link == \E locator \in Locators : Located(link(locator))

LinkOrButton == \E locator \in Locators : Located(link_or_button(locator))

RadioButton == \E locator \in Locators : Located(radio_button(locator))

Select == \E locator \in Locators : Located(select(locator))

ToXPath ==
    /\ out = NotRendered
    /\ \E e \in BOOLEAN :
        /\ tree_exact' = e
        /\ out' = to_xpath(tree, e)
    /\ UNCHANGED <<tree, depth>>
    /\ UNCHANGED call_vars

Next ==
    \/ Attr
    \/ Child
    \/ Descendant
    \/ PreviousSibling
    \/ Contains
    \/ Equals
    \/ Is
    \/ OneOf
    \/ Or
    \/ Invert
    \/ Add
    \/ GetItem
    \/ String
    \/ N
    \/ Name
    \/ StartsWith
    \/ StringLength
    \/ Substring
    \/ Construct
    \/ Anywhere
    \/ Button
    \/ Checkbox
    \/ Field
    \/ Fieldset
    \/ FileField
    \/ Link
    \/ LinkOrButton
    \/ RadioButton
    \/ Select
    \/ ToXPath

Spec == Init /\ [][Next]_vars

\* a client that only filters, unites and selects before it renders
NextCombine ==
    \/ Attr
    \/ Descendant
    \/ Is
    \/ Or
    \/ Add
    \/ GetItem
    \/ Button
    \/ Link
    \/ ToXPath

SpecCombine == Init /\ [][NextCombine]_vars

-----------------------------------------------------------------------------
(* Concurrent to_xpath calls, one recursive step of render or              *)
(* _convert_argument at a time.  A frame holds the Expression or list      *)
(* being resolved and the values its arguments resolved to so far.         *)

Frame(obj) == [obj |-> obj, done |-> <<>>]

Items(obj) == IF obj.t = "Expression" THEN obj.arguments ELSE obj.items

Top(k) == stack[k][Len(stack[k])]

\* the argument the top frame resolves next
NextItem(k) == Items(Top(k).obj)[Len(Top(k).done) + 1]

HasNextItem(k) ==
    /\ pc[k] = "running"
    /\ Len(Top(k).done) < Len(Items(Top(k).obj))

\* the top frame with one more resolved value
Deliver(frames, value) ==
    [frames EXCEPT ![Len(frames)].done = Append(@, value)]

\* what the top frame evaluates to once its arguments are resolved
FrameValue(k) ==
    IF Top(k).obj.t = "Expression"
    THEN dispatch(self_exact[k], Top(k).obj.kind, Top(k).done)
    ELSE List(Top(k).done)

\* a subtree shared by several of the trees rendered concurrently
SharedSubtree == Expression_is_(attr(Str("id")), Str("x"))

CallTrees ==
    {SharedSubtree,
     Expression_invert(SharedSubtree),
     Expression_getitem(descendant(NameList(2)), SharedSubtree),
     Expression_or(Expression_name(current), SharedSubtree),
     Expression("ATTR", <<current>>)}

\* a variant that keeps the flag on the class, shared by every instance
Renderer_init_shared(flags, k, e) == [j \in DOMAIN flags |-> e]

\* Renderer.__init__: the instance of call k keeps its own exact flag
Renderer_init(flags, k, e) == [flags EXCEPT ![k] = e]

\* to_xpath(node, exact): Renderer(exact=exact).render(node) begins
Call(k) ==
    /\ pc[k] = "idle"
    /\ \E n \in CallTrees, e \in BOOLEAN :
        /\ call_node' = [call_node EXCEPT ![k] = n]
        /\ call_exact' = [call_exact EXCEPT ![k] = e]
        /\ self_exact' = Renderer_init(self_exact, k, e)
        /\ stack' = [stack EXCEPT ![k] = <<Frame(n)>>]
    /\ pc' = [pc EXCEPT ![k] = "running"]
    /\ UNCHANGED result
    /\ UNCHANGED build_vars

\* _convert_argument on a str, a Literal or anything else: no recursion
Resolve(k) ==
    /\ HasNextItem(k)
    /\ NextItem(k).t \notin {"Expression", "list"}
    /\ stack' = [stack EXCEPT ![k] = Deliver(@, convert_leaf(NextItem(k)))]
    /\ UNCHANGED <<pc, call_node, call_exact, self_exact, result>>
    /\ UNCHANGED build_vars

\* _convert_argument on an Expression or a list: recurse into it
Enter(k) ==
    /\ HasNextItem(k)
    /\ NextItem(k).t \in {"Expression", "list"}
    /\ stack' = [stack EXCEPT ![k] = Append(@, Frame(NextItem(k)))]
    /\ UNCHANGED <<pc, call_node, call_exact, self_exact, result>>
    /\ UNCHANGED build_vars

\* the top frame's arguments are resolved: its value goes to the caller
Return(k) ==
    /\ pc[k] = "running"
    /\ ~HasNextItem(k)
    /\ ~IsRaise(FrameValue(k))
    /\ IF Len(stack[k]) = 1
       THEN /\ result' = [result EXCEPT ![k] = FrameValue(k)]
            /\ pc' = [pc EXCEPT ![k] = "returned"]
            /\ stack' = [stack EXCEPT ![k] = <<>>]
       ELSE /\ stack' = [stack EXCEPT ![k] =
                            Deliver(SubSeq(@, 1, Len(@) - 1), FrameValue(k))]
            /\ UNCHANGED <<pc, result>>
    /\ UNCHANGED <<call_node, call_exact, self_exact>>
    /\ UNCHANGED build_vars

\* an exception leaves every frame of the call
RaiseOut(k) ==
    /\ pc[k] = "running"
    /\ ~HasNextItem(k)
    /\ IsRaise(FrameValue(k))
    /\ result' = [result EXCEPT ![k] = FrameValue(k)]
    /\ pc' = [pc EXCEPT ![k] = "returned"]
    /\ stack' = [stack EXCEPT ![k] = <<>>]
    /\ UNCHANGED <<call_node, call_exact, self_exact>>
    /\ UNCHANGED build_vars

NextCalls ==
    \E k \in Calls :
        \/ Call(k)
        \/ Resolve(k)
        \/ Enter(k)
        \/ Return(k)
        \/ RaiseOut(k)

SpecCalls == Init /\ [][NextCalls]_vars

-----------------------------------------------------------------------------
(* The NodeKind table: the shape each kind's argument list must have       *)

IsText(a) == a.t = "str"

IsToken(a) == a.t = "Literal" /\ a.value.t = "str"

RECURSIVE WellShaped(_)
IsNode(a) == a.t = "Expression" /\ WellShaped(a)

IsOperand(a) == IsText(a) \/ IsNode(a)

AllNodes(args, from) == \A i \in from..Len(args) : IsNode(args[i])

WellShaped(T) ==
    LET a == T.arguments
        n == Len(a)
    IN CASE T.kind = "THIS_NODE" -> n = 0
         [] T.kind = "ANYWHERE" -> n = 1 /\ IsToken(a[1])
         [] T.kind \in {"ATTR", "CHILD", "PREVIOUS_SIBLING"} ->
                n = 2 /\ IsNode(a[1]) /\ IsToken(a[2])
         [] T.kind = "DESCENDANT" ->
                /\ n = 2
                /\ IsNode(a[1])
                /\ a[2].t = "list"
                /\ \A i \in DOMAIN a[2].items : IsToken(a[2].items[i])
         [] T.kind \in {"CONTAINS", "EQUALITY", "IS"} ->
                n = 2 /\ IsOperand(a[1]) /\ IsOperand(a[2])
         [] T.kind = "ONE_OF" ->
                n >= 2 /\ IsNode(a[1]) /\ \A i \in 2..n : IsOperand(a[i])
         [] T.kind \in {"OR", "UNION"} -> n >= 1 /\ AllNodes(a, 1)
         [] T.kind \in {"INVERSE", "STRING", "NORMALIZED_SPACE"} ->
                n = 1 /\ IsNode(a[1])
         [] T.kind = "WHERE" -> n >= 2 /\ AllNodes(a, 1)
         [] OTHER -> FALSE

\* the nodes the renderer visits: arguments and the elements of sequences
RECURSIVE HasKind(_, _)
HasKind(v, kinds) ==
    CASE v.t = "Expression" ->
            \/ v.kind \in kinds
            \/ \E i \in DOMAIN v.arguments : HasKind(v.arguments[i], kinds)
      [] v.t = "list" -> \E i \in DOMAIN v.items : HasKind(v.items[i], kinds)
      [] OTHER -> FALSE

UnknownKinds == {"NAME", "STARTS_WITH", "STRING_LENGTH", "SUBSTRING"}

\* v with every IS node turned into the kind the mode stands for
RECURSIVE ReplaceIS(_, _)
ReplaceIS(v, m) ==
    CASE v.t = "Expression" ->
            Expression(IF v.kind = "IS"
                       THEN (IF m THEN "EQUALITY" ELSE "CONTAINS")
                       ELSE v.kind,
                       [i \in DOMAIN v.arguments |-> ReplaceIS(v.arguments[i], m)])
      [] v.t = "list" -> List([i \in DOMAIN v.items |-> ReplaceIS(v.items[i], m)])
      [] OTHER -> v

Rendered == out # NotRendered

\* the trees the locator functions of xpath.html return
HtmlTrees ==
    UNION {{button(l), checkbox(l), field(l), fieldset(l), file_field(l), link(l),
            link_or_button(l), radio_button(l), select(l)} : l \in Locators}

-----------------------------------------------------------------------------
(* The per-kind output templates, written from the table of templates      *)

RECURSIVE SepBy(_, _)
SepBy(sep, strs) ==
    IF Len(strs) = 0 THEN ""
    ELSE IF Len(strs) = 1 THEN strs[1]
    ELSE SepBy(sep, SubSeq(strs, 1, Len(strs) - 1)) \o sep \o strs[Len(strs)]

RECURSIVE TemplateText(_, _)
ResolvedText(a, m) ==
    CASE a.t = "Expression" -> TemplateText(a, m)
      [] a.t = "Literal" -> a.value.s
      [] OTHER -> "'" \o a.s \o "'"

TemplateText(T, m) ==
    LET a == T.arguments
        r(i) == ResolvedText(a[i], m)
        rs(from) == [i \in 1..(Len(a) - from + 1) |-> r(i + from - 1)]
    IN CASE T.kind = "THIS_NODE" -> "."
         [] T.kind = "ANYWHERE" -> "//" \o r(1)
         [] T.kind = "ATTR" -> r(1) \o "/@" \o r(2)
         [] T.kind = "CHILD" -> r(1) \o "/" \o r(2)
         [] T.kind = "DESCENDANT" ->
                LET names == [i \in DOMAIN a[2].items |-> a[2].items[i].value.s]
                IN IF Len(names) = 0 THEN r(1) \o "//*"
                   ELSE IF Len(names) = 1 THEN r(1) \o "//" \o names[1]
                   ELSE r(1) \o "//*["
                        \o SepBy(" | ", [i \in DOMAIN names |-> "self::" \o names[i]])
                        \o "]"
         [] T.kind = "PREVIOUS_SIBLING" ->
                r(1) \o "/preceding-sibling::*[1]/self::" \o r(2)
         [] T.kind = "CONTAINS" -> "contains(" \o r(1) \o ", " \o r(2) \o ")"
         [] T.kind = "EQUALITY" -> r(1) \o " = " \o r(2)
         [] T.kind = "IS" ->
                IF m THEN r(1) \o " = " \o r(2)
                ELSE "contains(" \o r(1) \o ", " \o r(2) \o ")"
         [] T.kind = "ONE_OF" ->
                SepBy(" or ", [i \in 1..(Len(a) - 1) |-> r(1) \o " = " \o r(i + 1)])
         [] T.kind = "OR" -> "(" \o SepBy(" or ", rs(1)) \o ")"
         [] T.kind = "INVERSE" -> "not(" \o r(1) \o ")"
         [] T.kind = "UNION" -> SepBy(" | ", rs(1))
         [] T.kind = "WHERE" ->
                r(1) \o SepBy("", [i \in 1..(Len(a) - 1) |-> "[" \o r(i + 1) \o "]"])
         [] T.kind = "STRING" -> "string(" \o r(1) \o ")"
         [] T.kind = "NORMALIZED_SPACE" -> "normalize-space(" \o r(1) \o ")"

-----------------------------------------------------------------------------
(* Properties                                                              *)

OrExample ==
    Expression("OR",
        <<Expression("EQUALITY",
              <<Expression("ATTR", <<current, Literal(Str("id"))>>), Str("x")>>),
          Expression("CONTAINS", <<Expression("STRING", <<current>>), Str("x")>>)>>)

OrExampleRenders ==
    \A m \in BOOLEAN :
       to_xpath(OrExample, m) = Str("(./@id = 'x' or contains(string(.), 'x'))")

DescendantTexts == <<".//*", ".//a", ".//*[self::a | self::b]">>

\* C1: a well-shaped tree renders, in either mode, to the text that the
\* table of per-kind templates gives for its resolved arguments; DESCENDANT
\* of the current node with 0, 1 and 2 names renders .//*, .//a and
\* .//*[self::a | self::b]; the OR example renders
\* (./@id = 'x' or contains(string(.), 'x')).
C1_RenderFollowsTemplates ==
    /\ (Rendered /\ WellShaped(tree)) => out = Str(TemplateText(tree, tree_exact))
    /\ \A k \in 0..2 :
          (Rendered /\ tree = descendant(NameList(k))) => out = Str(DescendantTexts[k + 1])
    /\ OrExampleRenders

C1_Witness ==
    /\ Rendered
    /\ tree.kind = "WHERE"
    /\ Len(tree.arguments) = 2
    /\ tree.arguments[1] = descendant(NameList(2))
    /\ WellShaped(tree)
    /\ out = Str(".//*[self::a | self::b][./@id]")

\* operands of a test that are plain text values or expressions
TestOperands == {Str("y")} \cup Operands

IsOfOperandsFollowsMode ==
    \A a \in TestOperands, b \in TestOperands :
       /\ to_xpath(Expression("IS", <<a, b>>), TRUE)
             = to_xpath(Expression("EQUALITY", <<a, b>>), TRUE)
       /\ to_xpath(Expression("IS", <<a, b>>), FALSE)
             = to_xpath(Expression("CONTAINS", <<a, b>>), FALSE)

\* C2: in exact mode IS(a, b) renders as EQUALITY(a, b) does, in approximate
\* mode as CONTAINS(a, b) does, for a and b a text value or an expression;
\* and a rendered tree with IS nodes at any depth has the text of the same
\* tree with each IS node replaced by the kind its mode stands for.
C2_IsFollowsMode ==
    /\ IsOfOperandsFollowsMode
    /\ (tree.kind = "IS" /\ Len(tree.arguments) = 2) =>
          /\ to_xpath(tree, TRUE) = to_xpath(Expression("EQUALITY", tree.arguments), TRUE)
          /\ to_xpath(tree, FALSE) = to_xpath(Expression("CONTAINS", tree.arguments), FALSE)
    /\ Rendered => out = to_xpath(ReplaceIS(tree, tree_exact), tree_exact)

C2_Witness ==
    /\ Rendered
    /\ tree_exact
    /\ tree.kind = "INVERSE"
    /\ Len(tree.arguments) = 1
    /\ tree.arguments[1].t = "Expression"
    /\ tree.arguments[1].kind = "IS"
    /\ out = Str("not(. = 'x')")

LocatorIsQuoted ==
    \A v \in Locators, m \in BOOLEAN :
       to_xpath(Expression_equals(attr(Str("id")), v), m)
          = Str("./@id = '" \o v.s \o "'")

\* C3: a plain text argument is emitted inside one pair of single quotes and
\* a Literal as its raw value, at the root's arguments and inside a sequence
\* argument alike; EQUALITY(ATTR(THIS_NODE, Literal id), v) renders
\* ./@id = 'v'.
C3_Quoting ==
    /\ \A i \in DOMAIN tree.arguments, m \in BOOLEAN :
          LET a == tree.arguments[i]
              r == _convert_argument(m, a)
          IN /\ IsText(a) => r = Str("'" \o a.s \o "'")
             /\ IsToken(a) => r = a.value
             /\ a.t = "list" /\ ~IsRaise(r) =>
                   \A j \in DOMAIN a.items :
                      /\ IsText(a.items[j]) => r.items[j] = Str("'" \o a.items[j].s \o "'")
                      /\ IsToken(a.items[j]) => r.items[j] = a.items[j].value
    /\ (/\ Rendered
        /\ tree.kind = "EQUALITY"
        /\ Len(tree.arguments) = 2
        /\ tree.arguments[1] = attr(Str("id"))
        /\ IsText(tree.arguments[2]))
          => out = Str("./@id = '" \o tree.arguments[2].s \o "'")
    /\ LocatorIsQuoted

C3_Witness ==
    /\ Rendered
    /\ tree = Expression_equals(attr(Str("id")), Str("x"))
    /\ out = Str("./@id = 'x'")

C3_WitnessSequence ==
    /\ tree.kind = "ATTR"
    /\ Len(tree.arguments) = 2
    /\ tree.arguments[2] = List(<<Str("x"), Literal(Str("a"))>>)
    /\ _convert_argument(FALSE, tree.arguments[2]) = List(<<Str("'x'"), Str("a")>>)

\* the text of a value that rendered without an exception
Text(v) == v.s

\* C4: for a node n that renders, WHERE node or not, and predicates p1, p2,
\* n[p1][p2] renders to render(n) [ render(p1) ][ render(p2) ]: both
\* predicates, in the order applied, once each.
C4_PredicateAccumulation ==
    \A m \in BOOLEAN :
       LET n == to_xpath(tree, m)
       IN IsStr(n) =>
             \A p1 \in ExprOperands, p2 \in ExprOperands :
                to_xpath(Expression_getitem(Expression_getitem(tree, p1), p2), m)
                   = Str(Text(n) \o "[" \o Text(to_xpath(p1, m))
                         \o "][" \o Text(to_xpath(p2, m)) \o "]")

C4_Witness ==
    /\ Rendered
    /\ ~tree_exact
    /\ tree = Expression("WHERE",
                 <<current, Expression_is_(Expression_n(string), Str("x")),
                   attr(Str("id"))>>)
    /\ out = Str(".[contains(normalize-space(string(.)), 'x')][./@id]")

C6_MalformedIsFatal == (Rendered /\ ~WellShaped(tree)) => IsRaise(out)

\* C7: rendering a tree that has, at the root or below, a node of a kind
\* without a render method ends in an exception, never in a text.
C7_UnknownKindIsFatal == (Rendered /\ HasKind(tree, UnknownKinds)) => IsRaise(out)

C7_Witness ==
    /\ Rendered
    /\ tree.kind = "INVERSE"
    /\ Len(tree.arguments) = 1
    /\ tree.arguments[1].t = "Expression"
    /\ tree.arguments[1].kind = "STARTS_WITH"
    /\ out = Raise("KeyError")

\* C8: under every interleaving of the steps of the calls, a call returns
\* what to_xpath returns for its node and mode when evaluated alone, two
\* calls with the same node and mode return the same, and from the moment a
\* call starts its Renderer's flag is the mode that was passed to it and
\* every frame of it reads a part of the tree it was given.
C8_RenderIsolation ==
    \A k \in Calls :
       /\ pc[k] = "returned" => result[k] = to_xpath(call_node[k], call_exact[k])
       /\ pc[k] # "idle" => self_exact[k] = call_exact[k]
       /\ pc[k] = "running" => stack[k][1].obj = call_node[k]
       /\ \A j \in Calls :
             (/\ pc[k] = "returned"
              /\ pc[j] = "returned"
              /\ call_node[j] = call_node[k]
              /\ call_exact[j] = call_exact[k]) => result[j] = result[k]

C8_Witness ==
    /\ pc[1] = "returned"
    /\ pc[2] = "returned"
    /\ call_node[1] = Expression_invert(SharedSubtree)
    /\ call_node[2] = SharedSubtree
    /\ call_exact[1]
    /\ ~call_exact[2]
    /\ result[1] = Str("not(./@id = 'x')")
    /\ result[2] = Str("contains(./@id, 'x')")

\* C9: a well-shaped tree without an IS node renders to the same text in
\* both modes; and every IS node of a rendered tree, at any depth, took the
\* mode passed to the call: the text is that of the tree with its IS nodes
\* replaced accordingly, which no longer depends on the mode.
C9_ModeOnlyAffectsIs ==
    /\ (WellShaped(tree) /\ ~HasKind(tree, {"IS"}))
          => to_xpath(tree, TRUE) = to_xpath(tree, FALSE)
    /\ (Rendered /\ WellShaped(tree))
          => out = to_xpath(ReplaceIS(tree, tree_exact), ~tree_exact)

C9_Witness ==
    /\ Rendered
    /\ tree_exact
    /\ WellShaped(tree)
    /\ ~HasKind(tree, {"IS"})
    /\ tree.kind = "EQUALITY"
    /\ out = Str("./@id = 'x'")

\* C10: every tree a locator function returns has, at every node, the shape
\* of its kind; the names of each DESCENDANT node are tag-name tokens.
C10_LocatorTreesWellShaped == tree \in HtmlTrees => WellShaped(tree)

====
